---- MODULE Spec2Model ----
(***************************************************************************)
(* Data-center explorer dashboard: the record store, the range filter of   *)
(* the Index page, the min-max normalizer of the interactive parallel      *)
(* coordinates chart and the shared highlight / active-country state.      *)
(*                                                                         *)
(* JavaScript values are tagged records [t, v]: t is the result of typeof  *)
(* ("number", "undefined", "object" for null) and v the numeric payload.   *)
(* Every number a loader can produce is finite (parseNumber and the        *)
(* remote column types), so numbers are modelled as integers.  A quotient  *)
(* is kept exact as a pair <<numerator, denominator>>.                     *)
(***************************************************************************)
EXTENDS Integers, Sequences, FiniteSets, TLC

\* ------------------------------------------------------------------ bounds
MaxRecords == 3      \* records handed to the parallel-coordinates chart
MaxExtraAttrs == 1   \* attributes picked from "Add..." beyond the initial four
MaxLoaded == 2       \* records in the record store when the filter is applied
MaxEdited == 1       \* ranges of a FilterState that differ from the defaults

\* ------------------------------------------------------------------ values
Undefined == [t |-> "undefined", v |-> 0]
Null == [t |-> "object", v |-> 0]
Num(n) == [t |-> "number", v |-> n]

\* typeof v === 'number' && !isNaN(v); no loader produces NaN
IsNumber(x) == x.t = "number"

Half == <<1, 2>>
RatEq(a, b) == a[2] # 0 /\ b[2] # 0 /\ a[1] * b[2] = b[1] * a[2]
InUnit(q) == \/ q[2] > 0 /\ 0 <= q[1] /\ q[1] <= q[2]
             \/ q[2] < 0 /\ 0 >= q[1] /\ q[1] >= q[2]

\* ------------------------------------------------------------- CountryData
RangeFields == <<"renewableEnergyPercent", "electricityCost", "averageTemperature",
                 "gdpPerCapita", "internetSpeed">>

availableAttributes == <<
  "Real_GDP_per_Capita_USD", "Real_GDP_Growth_Rate_percent",
  "Unemployment_Rate_percent", "Youth_Unemployment_Rate_percent",
  "Population_Growth_Rate", "Median_Age", "population_density",
  "electricity_access_percent", "electricity_capacity_per_capita",
  "internet_users_per_100", "broadband_subs_per_100", "mobile_subs_per_100",
  "road_density_per_1000km2", "rail_density_per_1000km2", "airports_per_million",
  "co2_per_capita_tonnes", "co2_per_gdp_tonnes_per_billion",
  "Mean_Temp", "water_share", "coastline_per_1000km2">>

SeqRange(s) == {s[i] : i \in DOMAIN s}

CountryDataKeys == SeqRange(RangeFields) \cup SeqRange(availableAttributes)

CountryCodes == <<"A", "B", "C", "D", "E">>

\* loadCiaFinalData: one record per row of the flat file; the legacy range
\* fields are copies of four of the CIA columns, electricityCost is never set.
CsvColumns == {"Real_GDP_per_Capita_USD", "Mean_Temp", "electricity_access_percent",
               "internet_users_per_100"}

FlatRecord(code, row) ==
  [countryCode |-> code,
   attrs |-> [k \in CountryDataKeys |->
     CASE k \in CsvColumns -> row[k]
       [] k = "gdpPerCapita" -> row["Real_GDP_per_Capita_USD"]
       [] k = "averageTemperature" -> row["Mean_Temp"]
       [] k = "renewableEnergyPercent" -> row["electricity_access_percent"]
       [] k = "internetSpeed" -> row["internet_users_per_100"]
       [] OTHER -> Undefined]]

\* fetchCountryData: one record per row of the remote table; the columns are
\* number | null and are copied as they are, no CIA attribute is set.
RemoteColumn(k) ==
  CASE k = "renewableEnergyPercent" -> "renewable_energy_percent"
    [] k = "electricityCost" -> "electricity_cost"
    [] k = "gdpPerCapita" -> "gdp_per_capita"
    [] k = "internetSpeed" -> "internet_speed"
    [] k = "averageTemperature" -> "average_temperature"

RemoteColumns == {RemoteColumn(RangeFields[i]) : i \in DOMAIN RangeFields}

RemoteRecord(code, row) ==
  [countryCode |-> code,
   attrs |-> [k \in CountryDataKeys |->
     IF k \in SeqRange(RangeFields) THEN row[RemoteColumn(k)] ELSE Undefined]]

\* ------------------------------------------------------------- normalizer
RECURSIVE MathMin(_)
MathMin(values) ==
  IF Len(values) = 1 THEN values[1]
  ELSE LET m == MathMin(Tail(values)) IN IF values[1] < m THEN values[1] ELSE m

RECURSIVE MathMax(_)
MathMax(values) ==
  IF Len(values) = 1 THEN values[1]
  ELSE LET m == MathMax(Tail(values)) IN IF values[1] > m THEN values[1] ELSE m

\* data.map(d => d[attr.key]).filter(v => typeof v === 'number' && !isNaN(v))
RECURSIVE NumericValues(_, _)
NumericValues(d, key) ==
  IF d = <<>> THEN <<>>
  ELSE LET x == Head(d).attrs[key]
       IN (IF IsNumber(x) THEN <<x.v>> ELSE <<>>) \o NumericValues(Tail(d), key)

\* mutant of Ranges: the minimum is folded from 0 instead of from the values
Ranges_MinFromZero(d, key) ==
  LET values == NumericValues(d, key)
  IN IF Len(values) > 0
       THEN [has |-> TRUE, min |-> MathMin(<<0>> \o values), max |-> MathMax(values)]
       ELSE [has |-> FALSE, min |-> 0, max |-> 0]

\* ranges[attr.key]: present only when some record has a numeric value
Ranges(d, key) ==
  LET values == NumericValues(d, key)
  IN IF Len(values) > 0
       THEN [has |-> TRUE, min |-> MathMin(values), max |-> MathMax(values)]
       ELSE [has |-> FALSE, min |-> 0, max |-> 0]

\* mutants of NormalizeValue
NormalizeValue_NoOffset(value, range) ==
  IF IsNumber(value) /\ range.has
    THEN LET span == range.max - range.min
         IN IF span = 0 THEN Half ELSE <<value.v, span>>
    ELSE Half

NormalizeValue_MissingAsZero(value, range) ==
  IF IsNumber(value) /\ range.has
    THEN LET span == range.max - range.min
         IN IF span = 0 THEN Half ELSE <<value.v - range.min, span>>
    ELSE <<0, 1>>

NormalizeValue_ZeroSpanBottom(value, range) ==
  IF IsNumber(value) /\ range.has
    THEN LET span == range.max - range.min
         IN IF span = 0 THEN <<0, 1>> ELSE <<value.v - range.min, span>>
    ELSE Half

NormalizeValue(value, range) ==
  IF IsNumber(value) /\ range.has
    THEN LET span == range.max - range.min
         IN IF span = 0 THEN Half ELSE <<value.v - range.min, span>>
    ELSE Half

NormalizedData(d, attributes) ==
  [i \in 1..Len(d) |->
    [country |-> d[i],
     normalized |-> [k \in SeqRange(attributes) |->
                       NormalizeValue(d[i].attrs[k], Ranges(d, k))]]]

\* --------------------------------------------------------------- the state
VARIABLES
  countryData,         \* Index: the record store
  filters,             \* Index: the FilterState
  filteredData,        \* Index: countryData.filter(...) of the last render
  data,                \* InteractiveParallelCoordinates: the data prop
  selectedAttributes,  \* InteractiveParallelCoordinates: the axes
  normalizedData,      \* InteractiveParallelCoordinates: useMemo result
  selectedCountry,     \* Index: code of the active country, or NoCountry
  highlightedCountries,\* Index: the shared highlight set
  hoveredCountry,      \* InteractiveParallelCoordinates: hovered line
  localSelection,      \* InteractiveParallelCoordinates: local copy of the selection
  isMultiSelectMode,   \* InteractiveParallelCoordinates
  isBrushing,          \* TopCountriesChart: a brush gesture is in progress
  brushStart,          \* TopCountriesChart: Null or Num(percent)
  brushEnd,            \* TopCountriesChart: Null or Num(percent)
  matrixSize,          \* ScatterPlotMatrix: "1x1", "2x2" or "3x3"
  scatterAttributes,   \* ScatterPlotMatrix: its selectedAttributes
  brushMode,           \* ScatterPlotMatrix
  brushingCell,        \* ScatterPlotMatrix: <<row, col>> of the cell being brushed, or NoCell
  scatterBrushStart,   \* ScatterPlotMatrix: brushStart, Null or [x, y]
  scatterBrushEnd,     \* ScatterPlotMatrix: brushEnd, Null or [x, y]
  draggedIndex,        \* InteractiveParallelCoordinates: Null or Num(index of the dragged chip)
  dragOverIndex,       \* InteractiveParallelCoordinates: Null or Num(index of the chip under it)
  loading,             \* Index: the loading flag
  loadStep,            \* Index.loadCountryData: the promise it awaits, or "settled"
  notice,              \* the title of the toast shown by loadCountryData, or NoNotice
  hasSeenTutorial,     \* localStorage: the item "hasSeenTutorial", Null when absent
  isOpen,              \* IntroTutorial
  currentStep,         \* IntroTutorial
  sectionOrder,        \* Index: the order of the dashboard sections
  draggedSection,      \* Index: a section id or NoSection
  dragOverSection,     \* Index: a section id or NoSection
  sectionDragging      \* the browser is in a drag gesture that started on a section handle

indexVars == <<countryData, filters, filteredData>>
chartVars == <<data, selectedAttributes, normalizedData>>
highlightVars == <<selectedCountry, highlightedCountries, hoveredCountry, localSelection,
                   isMultiSelectMode, isBrushing, brushStart, brushEnd>>
scatterVars == <<matrixSize, scatterAttributes, brushMode, brushingCell,
                 scatterBrushStart, scatterBrushEnd>>
dragVars == <<draggedIndex, dragOverIndex>>
loadVars == <<loading, loadStep, notice>>
tutorialVars == <<hasSeenTutorial, isOpen, currentStep>>
layoutVars == <<sectionOrder, draggedSection, dragOverSection, sectionDragging>>
shellVars == <<tutorialVars, layoutVars>>
vars == <<indexVars, chartVars, highlightVars, scatterVars, dragVars, loadVars, shellVars>>

NoCountry == "null"
NoCell == <<>>
NoNotice == "none"
NoSection == "null"

\* ------------------------------------------------------------ range filter
\* ToNumber of a value that is compared with < or >: null is +0
ToNumber(x) == IF x.t = "number" THEN x.v ELSE 0

\* a < b / d and a > b / d, with d a positive integer; undefined converts to
\* NaN and every comparison with NaN is false
JsLess(a, b, d) == a.t # "undefined" /\ d * ToNumber(a) < b
JsGreater(a, b, d) == a.t # "undefined" /\ d * ToNumber(a) > b

\* mutants of OutOfRange
OutOfRange_ExclusiveBounds(value, range, divisor) ==
  /\ value # Undefined
  /\ (~JsGreater(value, range[1], divisor) \/ ~JsLess(value, range[2], divisor))

OutOfRange_UndefinedAsZero(value, range, divisor) ==
  LET x == IF value = Undefined THEN Null ELSE value
  IN JsLess(x, range[1], divisor) \/ JsGreater(x, range[2], divisor)

OutOfRange_BelowMax(value, range, divisor) ==
  /\ value # Undefined
  /\ (JsLess(value, range[1], divisor) \/ JsLess(value, range[2], divisor))

OutOfRange_Both(value, range, divisor) ==
  /\ value # Undefined
  /\ (JsLess(value, range[1], divisor) /\ JsGreater(value, range[2], divisor))

\* one "if (...) return false" of the filter callback
OutOfRange(value, range, divisor) ==
  /\ value # Undefined
  /\ (JsLess(value, range[1], divisor) \/ JsGreater(value, range[2], divisor))

Passes(country, f) ==
  /\ ~OutOfRange(country.attrs["renewableEnergyPercent"], f.renewableEnergy, 1)
  /\ ~OutOfRange(country.attrs["electricityCost"], f.electricityCost, 100)
  /\ ~OutOfRange(country.attrs["averageTemperature"], f.temperature, 1)
  /\ ~OutOfRange(country.attrs["gdpPerCapita"], f.gdp, 1)
  /\ ~OutOfRange(country.attrs["internetSpeed"], f.internetSpeed, 1)

FilteredData(cd, f) == SelectSeq(cd, LAMBDA country : Passes(country, f))

DefaultFilters ==
  [renewableEnergy |-> <<0, 100>>,
   electricityCost |-> <<0, 100>>,
   temperature |-> <<-20, 50>>,
   gdp |-> <<0, 100000>>,
   internetSpeed |-> <<0, 1000>>,
   selectedMetric |-> "renewableEnergyPercent",
   selectedCountries |-> <<>>]

IndexInit ==
  /\ countryData = <<>>
  /\ filters = DefaultFilters
  /\ filteredData = FilteredData(countryData, filters)

resetFilters ==
  /\ filters' = DefaultFilters
  /\ filteredData' = FilteredData(countryData, filters')
  /\ UNCHANGED countryData

\* range name of FilterState -> field of CountryData it is checked against
RangeNames == <<"renewableEnergy", "electricityCost", "temperature", "gdp", "internetSpeed">>
FieldOf(name) ==
  CASE name = "renewableEnergy" -> "renewableEnergyPercent"
    [] name = "electricityCost" -> "electricityCost"
    [] name = "temperature" -> "averageTemperature"
    [] name = "gdp" -> "gdpPerCapita"
    [] name = "internetSpeed" -> "internetSpeed"

\* the inputs the filter is exercised with: for every range the default, a
\* single point, a range above and a range below the sample value, and a
\* range with min > max
RangeChoices(name) ==
  CASE name = "renewableEnergy" -> {<<0, 100>>, <<50, 50>>, <<55, 100>>, <<0, 45>>, <<100, 0>>}
    [] name = "electricityCost" -> {<<0, 100>>, <<100, 100>>, <<55, 100>>, <<0, 45>>, <<100, 0>>}
    [] name = "temperature" -> {<<-20, 50>>, <<-5, -5>>, <<5, 50>>, <<-20, -10>>, <<50, -20>>}
    [] name = "gdp" -> {<<0, 100000>>, <<10000, 10000>>, <<20000, 60000>>, <<0, 5000>>, <<60000, 20000>>}
    [] name = "internetSpeed" -> {<<0, 1000>>, <<10, 10>>, <<20, 1000>>, <<0, 0>>, <<1000, 0>>}

SampleValues(field) ==
  CASE field \in {"renewableEnergyPercent", "electricity_access_percent"} -> {50}
    [] field \in {"electricityCost"} -> {1}
    [] field \in {"averageTemperature", "Mean_Temp"} -> {-5}
    [] field \in {"gdpPerCapita", "Real_GDP_per_Capita_USD"} -> {10000}
    [] field \in {"internetSpeed", "internet_users_per_100"} -> {10}

Edited(f) == {i \in DOMAIN RangeNames : f[RangeNames[i]] # DefaultFilters[RangeNames[i]]}

AllowLists == {<<>>, <<"B">>}

FilterStates ==
  {f \in [renewableEnergy : RangeChoices("renewableEnergy"),
          electricityCost : RangeChoices("electricityCost"),
          temperature : RangeChoices("temperature"),
          gdp : RangeChoices("gdp"),
          internetSpeed : RangeChoices("internetSpeed"),
          selectedMetric : {"renewableEnergyPercent"},
          selectedCountries : AllowLists] : Cardinality(Edited(f)) <= MaxEdited}

\* rows of the two sources: nothing defined, one cell defined, every cell defined
Sparse(rows, missing) ==
  {r \in rows : \/ Cardinality({c \in DOMAIN r : r[c] # missing}) <= 1
                \/ \A c \in DOMAIN r : r[c] # missing}

FlatRows ==
  Sparse({r \in [CsvColumns -> {Undefined} \cup {Num(n) : n \in {-5, 10, 50, 10000}}] :
            \A c \in CsvColumns : r[c] = Undefined \/ r[c].v \in SampleValues(c)}, Undefined)

RemoteRows ==
  Sparse({r \in [RemoteColumns -> {Null} \cup {Num(n) : n \in {-5, 1, 10, 50, 10000}}] :
            \A i \in DOMAIN RangeFields :
              LET c == RemoteColumn(RangeFields[i])
              IN r[c] = Null \/ r[c].v \in SampleValues(RangeFields[i])}, Null)

LoadedData ==
  UNION {{[i \in 1..n |-> FlatRecord(CountryCodes[i], rows[i])] : rows \in [1..n -> FlatRows]}
         \cup {[i \in 1..n |-> RemoteRecord(CountryCodes[i], rows[i])] : rows \in [1..n -> RemoteRows]}
         : n \in 0..MaxLoaded}

\* ---------------------------------------- normalization in the other views
\* country[key]: undefined for a field the record does not carry
Field(country, key) ==
  IF key \in DOMAIN country.attrs THEN country.attrs[key] ELSE Undefined

RECURSIVE FieldValues(_, _)
FieldValues(d, key) ==
  IF d = <<>> THEN <<>>
  ELSE (IF IsNumber(Field(Head(d), key)) THEN <<Field(Head(d), key).v>> ELSE <<>>)
         \o FieldValues(Tail(d), key)

\* ParallelCoordinatesChart
dimensions == <<"gdpPerCapita", "co2Emissions", "electricityCapacityKw",
                "renewableEnergyPercent", "internetUsers">>

keyCountries(d) ==
  LET candidates == SelectSeq(d, LAMBDA c :
                      \E i \in DOMAIN dimensions : IsNumber(Field(c, dimensions[i])))
  IN SubSeq(candidates, 1, IF Len(candidates) < 6 THEN Len(candidates) ELSE 6)

\* ranges[dim.key], null when no key country has a number
chartRanges(d, key) ==
  LET values == FieldValues(keyCountries(d), key)
  IN IF Len(values) > 0
       THEN [has |-> TRUE, min |-> MathMin(values), max |-> MathMax(values)]
       ELSE [has |-> FALSE, min |-> 0, max |-> 0]

\* row[id] of chartData for one dimension, on the scale 0..100
chartData(d, key, country) ==
  LET raw == Field(country, key)
      range == chartRanges(d, key)
  IN IF ~IsNumber(raw) \/ ~range.has
       THEN <<0, 1>>
       ELSE LET denom == range.max - range.min
            IN IF denom = 0 THEN <<50, 1>> ELSE <<(raw.v - range.min) * 100, denom>>

\* EnhancedWorldMap: the level a country polygon is coloured with, on the
\* scale 0..100; a country without a number keeps the muted colour
NoLevel == <<0, 0>>

level(d, selectedMetric, country) ==
  LET numericValues == FieldValues(d, selectedMetric)
      min == IF Len(numericValues) > 0 THEN MathMin(numericValues) ELSE 0
      max == IF Len(numericValues) > 0 THEN MathMax(numericValues) ELSE 0
      range == IF max - min = 0 THEN 1 ELSE max - min
      rawValue == Field(country, selectedMetric)
  IN IF IsNumber(rawValue) THEN <<(rawValue.v - min) * 100, range>> ELSE NoLevel

\* SpiderChart
radarAttributes == <<"road_density_per_1000km2", "airports_per_million",
                     "internet_users_per_100", "Real_GDP_per_Capita_USD",
                     "Unemployment_Rate_percent", "electricity_access_percent",
                     "co2_per_gdp_tonnes_per_billion">>
invertedMetrics == {"Unemployment_Rate_percent", "co2_per_gdp_tonnes_per_billion"}

\* Math.round of the rational q >= 0
MathRound(q) == (2 * q[1] + q[2]) \div (2 * q[2])

\* normalizeValue of one radar attribute: null, or a whole number 0..100
radarNormalizeValue(d, key, country) ==
  LET value == Field(country, key)
      values == FieldValues(d, key)
  IN IF ~IsNumber(value) \/ Len(values) = 0
       THEN Null
       ELSE LET span == MathMax(values) - MathMin(values)
                normalized == IF span = 0 THEN Half ELSE <<value.v - MathMin(values), span>>
                shown == IF key \in invertedMetrics
                           THEN <<normalized[2] - normalized[1], normalized[2]>>
                           ELSE normalized
            IN Num(MathRound(<<shown[1] * 100, shown[2]>>))

\* CollapsibleFilterPanel: the histograms over the range sliders
histogramFields == {"electricity_access_percent", "electricity_capacity_per_capita",
                    "Mean_Temp", "Real_GDP_per_Capita_USD", "internet_users_per_100"}
bins == 10
NaNIndex == -1      \* Math.min(Math.floor(0 / 0), bins - 1): not an index of the array

\* Math.min(Math.floor((v - min) / binSize), bins - 1) with binSize = (max - min) / bins
binIndex(v, min, max) ==
  IF max = min THEN NaNIndex
  ELSE LET floor == ((v - min) * bins) \div (max - min)
       IN IF floor < bins - 1 THEN floor ELSE bins - 1

\* getDataDistribution(field): [] without values, else the counts of bins 0..9;
\* distribution[NaN]++ leaves every bin as it is
getDataDistribution(cd, field) ==
  LET values == FieldValues(cd, field)
  IN IF Len(values) = 0 THEN <<>>
     ELSE [b \in 1..bins |->
            Cardinality({i \in DOMAIN values :
              binIndex(values[i], MathMin(values), MathMax(values)) = b - 1})]

\* ------------------------------------------------ highlight / active state
HighlightInit ==
  /\ selectedCountry = NoCountry
  /\ highlightedCountries = {}
  /\ hoveredCountry = NoCountry
  /\ localSelection = {}
  /\ isMultiSelectMode = TRUE
  /\ isBrushing = FALSE
  /\ brushStart = Null
  /\ brushEnd = Null

\* InteractiveParallelCoordinates: highlightedCountries && size > 0 ? it : localSelection
effectiveSelection ==
  IF highlightedCountries # {} THEN highlightedCountries ELSE localSelection

\* The three colour functions return the emphasis of the branch taken:
\* getLineColor  chart-3 hovered, chart-1 highlighted, muted/0.1 de-emphasized,
\*               chart-2 active (selectedCountries), muted/0.3 default
getLineColor(countryCode) ==
  IF hoveredCountry = countryCode THEN "hovered"
  ELSE IF effectiveSelection # {}
    THEN (IF countryCode \in effectiveSelection THEN "highlighted" ELSE "de-emphasized")
  ELSE IF selectedCountry # NoCountry /\ selectedCountry = countryCode THEN "active"
  ELSE "default"

\* getPointColor chart-3 active, chart-1 highlighted, muted/0.2 de-emphasized,
\*               chart-2 default
getPointColor(countryCode) ==
  IF selectedCountry # NoCountry /\ selectedCountry = countryCode THEN "active"
  ELSE IF highlightedCountries # {}
    THEN (IF countryCode \in highlightedCountries THEN "highlighted" ELSE "de-emphasized")
  ELSE "default"

\* TopCountriesChart: the records with a numeric metric, largest first, at most limit
limit == 10

RECURSIVE InsertDescending(_, _, _)
InsertDescending(sorted, c, metric) ==
  IF sorted = <<>> THEN <<c>>
  ELSE IF Head(sorted).attrs[metric].v >= c.attrs[metric].v
    THEN <<Head(sorted)>> \o InsertDescending(Tail(sorted), c, metric)
    ELSE <<c>> \o sorted

RECURSIVE SortDescending(_, _)
SortDescending(d, metric) ==
  IF d = <<>> THEN <<>>
  ELSE InsertDescending(SortDescending(SubSeq(d, 1, Len(d) - 1), metric), d[Len(d)], metric)

topCountries ==
  LET metric == filters.selectedMetric
      withValues == SelectSeq(filteredData, LAMBDA c : IsNumber(c.attrs[metric]))
      sorted == SortDescending(withValues, metric)
  IN SubSeq(sorted, 1, IF Len(sorted) < limit THEN Len(sorted) ELSE limit)

\* bar i (from 0) spans [i / barCount * 100, (i + 1) / barCount * 100]
getSelectedIndices ==
  IF brushStart = Null \/ brushEnd = Null THEN {}
  ELSE LET minY == IF brushStart.v < brushEnd.v THEN brushStart.v ELSE brushEnd.v
           maxY == IF brushStart.v > brushEnd.v THEN brushStart.v ELSE brushEnd.v
           barCount == Len(topCountries)
       IN {i \in 0..(barCount - 1) :
             (i + 1) * 100 >= minY * barCount /\ i * 100 <= maxY * barCount}

\* getBarColor   chart-3 active, chart-1 / muted while brushing (preview),
\*               chart-1 highlighted, muted/0.3 de-emphasized, chart-1 default
getBarColor(countryCode, index) ==
  IF selectedCountry # NoCountry /\ selectedCountry = countryCode THEN "active"
  ELSE IF isBrushing
    THEN (IF index \in getSelectedIndices THEN "highlighted" ELSE "de-emphasized")
  ELSE IF highlightedCountries # {}
    THEN (IF countryCode \in highlightedCountries THEN "highlighted" ELSE "de-emphasized")
  ELSE "default"

\* setHighlightedCountries, followed by the effect of the parallel-coordinates
\* chart that copies the new set into localSelection
setHighlightedCountries(newSet) ==
  /\ highlightedCountries' = newSet
  /\ localSelection' = newSet

Toggled_AddOnly(set, countryCode) == set \cup {countryCode}

Toggled(set, countryCode) ==
  IF countryCode \in set THEN set \ {countryCode} ELSE set \cup {countryCode}

FilteredCodes == {filteredData[i].countryCode : i \in DOMAIN filteredData}
LoadedCodes == {countryData[i].countryCode : i \in DOMAIN countryData}

\* Index.handleChartCountrySelect, reached from a bar of the bar chart
BarClick(index) ==
  /\ index \in 0..(Len(topCountries) - 1)
  /\ selectedCountry' = topCountries[index + 1].countryCode
  /\ UNCHANGED <<highlightedCountries, hoveredCountry, localSelection, isMultiSelectMode,
                 isBrushing, brushStart, brushEnd>>

\* A pointer click on a bar: the bar lies inside the brush container, so the
\* browser delivers mousedown and mouseup to handleMouseDown and
\* handleMouseUp before the click reaches the onClick of the bar. y is the
\* pointer position in percent of the container height.
IndicesAt(y) ==
  {i \in 0..(Len(topCountries) - 1) :
     (i + 1) * 100 >= y * Len(topCountries) /\ i * 100 <= y * Len(topCountries)}

BarClickGesture(index, y) ==
  /\ index \in 0..(Len(topCountries) - 1)
  /\ brushStart' = Num(y)
  /\ brushEnd' = Num(y)
  /\ isBrushing' = FALSE
  /\ IF IndicesAt(y) # {}
       THEN setHighlightedCountries({topCountries[i + 1].countryCode : i \in IndicesAt(y)})
       ELSE UNCHANGED <<highlightedCountries, localSelection>>
  /\ selectedCountry' = topCountries[index + 1].countryCode
  /\ UNCHANGED <<hoveredCountry, isMultiSelectMode>>

\* the older page: onCountryClick of the map, onClose of the detail panel
onCountryClick(countryCode) ==
  /\ countryCode \in FilteredCodes
  /\ selectedCountry' = countryCode
  /\ UNCHANGED <<highlightedCountries, hoveredCountry, localSelection, isMultiSelectMode,
                 isBrushing, brushStart, brushEnd>>

onClose ==
  /\ selectedCountry # NoCountry
  /\ selectedCountry' = NoCountry
  /\ UNCHANGED <<highlightedCountries, hoveredCountry, localSelection, isMultiSelectMode,
                 isBrushing, brushStart, brushEnd>>

\* ------------------------------------------------- scatter-plot matrix
ScatterInit ==
  /\ matrixSize = "1x1"
  /\ scatterAttributes = <<"Real_GDP_per_Capita_USD", "co2_per_capita_tonnes",
                           "internet_users_per_100">>
  /\ brushMode = FALSE
  /\ brushingCell = NoCell
  /\ scatterBrushStart = Null
  /\ scatterBrushEnd = Null

gridSize == IF matrixSize = "1x1" THEN 1 ELSE IF matrixSize = "2x2" THEN 2 ELSE 3

\* three attributes are always selected, so nothing is padded
activeAttributes == SubSeq(scatterAttributes, 1, gridSize)

\* the cells off the diagonal, <<row, col>> from 0; the diagonal shows labels
ScatterCells == {cell \in (0..(gridSize - 1)) \X (0..(gridSize - 1)) : cell[1] # cell[2]}
xAttr(cell) == activeAttributes[cell[2] + 1]
yAttr(cell) == activeAttributes[cell[1] + 1]

getScatterData(cell) ==
  SelectSeq(filteredData, LAMBDA country :
    IsNumber(country.attrs[xAttr(cell)]) /\ IsNumber(country.attrs[yAttr(cell)]))

\* the countries drawn as a point of some cell
PointCodes ==
  UNION {{getScatterData(cell)[i].countryCode : i \in DOMAIN getScatterData(cell)}
         : cell \in ScatterCells}

MatrixSizes == {"1x1", "2x2"}

setMatrixSize(size) ==
  /\ matrixSize' = size
  /\ UNCHANGED <<scatterAttributes, brushMode, brushingCell, scatterBrushStart, scatterBrushEnd>>

\* the attribute selectors the matrix is tried with
AttributeChanges == {<<1, "electricity_access_percent">>, <<1, "co2_per_capita_tonnes">>}

handleAttributeChange(index, value) ==
  /\ index < gridSize
  /\ scatterAttributes' = [scatterAttributes EXCEPT ![index + 1] = value]
  /\ UNCHANGED <<matrixSize, brushMode, brushingCell, scatterBrushStart, scatterBrushEnd>>

setBrushMode ==
  /\ brushMode' = ~brushMode
  /\ UNCHANGED <<matrixSize, scatterAttributes, brushingCell, scatterBrushStart, scatterBrushEnd>>

\* the pointer positions, in data coordinates, a brush of a cell is tried with
ScatterPositions == {[x |-> 0, y |-> 0], [x |-> 30000, y |-> 30000],
                     [x |-> 100000, y |-> 100000]}

Least(a, b) == IF a < b THEN a ELSE b
Greatest(a, b) == IF a > b THEN a ELSE b

\* the countries of the data prop whose point of the cell lies in the box
InBox(cell, from, to) ==
  {filteredData[i].countryCode : i \in
     {j \in DOMAIN filteredData :
        LET xVal == filteredData[j].attrs[xAttr(cell)]
            yVal == filteredData[j].attrs[yAttr(cell)]
        IN /\ IsNumber(xVal) /\ IsNumber(yVal)
           /\ xVal.v >= Least(from.x, to.x) /\ xVal.v <= Greatest(from.x, to.x)
           /\ yVal.v >= Least(from.y, to.y) /\ yVal.v <= Greatest(from.y, to.y)}}

\* ScatterPlotMatrix.handleBrushSelect: the set handed to onBrushSelection
handleBrushSelect(cell, from, to) == highlightedCountries \cup InBox(cell, from, to)

\* onMouseDown / onMouseMove / onMouseUp / onMouseLeave of the chart of a cell
scatterMouseDown(cell, pos) ==
  /\ cell \in ScatterCells
  /\ brushMode
  /\ brushingCell' = cell
  /\ scatterBrushStart' = pos
  /\ scatterBrushEnd' = pos
  /\ UNCHANGED <<matrixSize, scatterAttributes, brushMode, highlightVars>>

scatterMouseMove(cell, pos) ==
  /\ cell \in ScatterCells
  /\ brushMode /\ brushingCell = cell /\ scatterBrushStart # Null
  /\ scatterBrushEnd' = pos
  /\ UNCHANGED <<matrixSize, scatterAttributes, brushMode, brushingCell, scatterBrushStart,
                 highlightVars>>

scatterMouseUp(cell) ==
  /\ cell \in ScatterCells
  /\ brushMode /\ brushingCell = cell /\ scatterBrushStart # Null /\ scatterBrushEnd # Null
  /\ setHighlightedCountries(handleBrushSelect(cell, scatterBrushStart, scatterBrushEnd))
  /\ brushingCell' = NoCell
  /\ scatterBrushStart' = Null
  /\ scatterBrushEnd' = Null
  /\ UNCHANGED <<matrixSize, scatterAttributes, brushMode, selectedCountry, hoveredCountry,
                 isMultiSelectMode, isBrushing, brushStart, brushEnd>>

scatterMouseLeave(cell) ==
  /\ cell \in ScatterCells
  /\ brushingCell = cell
  /\ brushingCell' = NoCell
  /\ scatterBrushStart' = Null
  /\ scatterBrushEnd' = Null
  /\ UNCHANGED <<matrixSize, scatterAttributes, brushMode, highlightVars>>

\* ScatterPlotMatrix.handleClearSelection; rendered while hasSelection
scatterClearSelection ==
  /\ highlightedCountries # {}
  /\ setHighlightedCountries({})
  /\ UNCHANGED <<selectedCountry, hoveredCountry, isMultiSelectMode, isBrushing,
                 brushStart, brushEnd, scatterVars>>

handlePointClick_KeepsActive(countryCode) ==
  /\ ~brushMode
  /\ countryCode \in PointCodes
  /\ setHighlightedCountries(Toggled(highlightedCountries, countryCode))
  /\ UNCHANGED <<selectedCountry, hoveredCountry, isMultiSelectMode, isBrushing,
                 brushStart, brushEnd>>

\* ScatterPlotMatrix.handlePointClick, from the onClick of a point
handlePointClick(countryCode) ==
  /\ ~brushMode
  /\ countryCode \in PointCodes
  /\ setHighlightedCountries(Toggled(highlightedCountries, countryCode))
  /\ selectedCountry' = countryCode
  /\ UNCHANGED <<hoveredCountry, isMultiSelectMode, isBrushing, brushStart, brushEnd>>

\* InteractiveParallelCoordinates.handleLineClick
handleLineClick(countryCode) ==
  /\ countryCode \in FilteredCodes
  /\ IF isMultiSelectMode
       THEN setHighlightedCountries(Toggled(localSelection, countryCode))
       ELSE UNCHANGED <<highlightedCountries, localSelection>>
  /\ selectedCountry' = countryCode
  /\ UNCHANGED <<hoveredCountry, isMultiSelectMode, isBrushing, brushStart, brushEnd>>

\* InteractiveParallelCoordinates.handleClearSelection; the button is
\* rendered while effectiveSelection is not empty
handleClearSelection ==
  /\ effectiveSelection # {}
  /\ setHighlightedCountries({})
  /\ UNCHANGED <<selectedCountry, hoveredCountry, isMultiSelectMode, isBrushing,
                 brushStart, brushEnd>>

toggleMultiSelectMode ==
  /\ isMultiSelectMode' = ~isMultiSelectMode
  /\ UNCHANGED <<selectedCountry, highlightedCountries, hoveredCountry, localSelection,
                 isBrushing, brushStart, brushEnd>>

\* onMouseEnter / onMouseLeave of a line
setHoveredCountry(countryCode) ==
  /\ countryCode \in FilteredCodes \cup {NoCountry}
  /\ hoveredCountry' = countryCode
  /\ UNCHANGED <<selectedCountry, highlightedCountries, localSelection, isMultiSelectMode,
                 isBrushing, brushStart, brushEnd>>

\* CollapsibleFilterPanel.toggleCountry
toggleCountry(countryCode) ==
  /\ countryCode \in LoadedCodes
  /\ setHighlightedCountries(Toggled(highlightedCountries, countryCode))
  /\ UNCHANGED <<selectedCountry, hoveredCountry, isMultiSelectMode, isBrushing,
                 brushStart, brushEnd>>

\* TopCountriesChart brush: the pointer positions the gesture is tried with
BrushPositions == {10, 50, 90}

handleMouseDown(y) ==
  /\ brushStart' = Num(y)
  /\ brushEnd' = Num(y)
  /\ isBrushing' = TRUE
  /\ UNCHANGED <<selectedCountry, highlightedCountries, hoveredCountry, localSelection,
                 isMultiSelectMode>>

handleMouseMove(y) ==
  /\ isBrushing
  /\ brushEnd' = Num(IF y < 0 THEN 0 ELSE IF y > 100 THEN 100 ELSE y)
  /\ UNCHANGED <<selectedCountry, highlightedCountries, hoveredCountry, localSelection,
                 isMultiSelectMode, isBrushing, brushStart>>

handleMouseUp ==
  /\ isBrushing
  /\ isBrushing' = FALSE
  /\ IF getSelectedIndices # {}
       THEN setHighlightedCountries({topCountries[i + 1].countryCode : i \in getSelectedIndices})
       ELSE UNCHANGED <<highlightedCountries, localSelection>>
  /\ UNCHANGED <<selectedCountry, hoveredCountry, isMultiSelectMode, brushStart, brushEnd>>

\* TopCountriesChart.handleClearSelection; rendered while hasSelection
barClearSelection ==
  /\ highlightedCountries # {}
  /\ brushStart' = Null
  /\ brushEnd' = Null
  /\ setHighlightedCountries({})
  /\ UNCHANGED <<selectedCountry, hoveredCountry, isMultiSelectMode, isBrushing>>

\* CollapsibleFilterPanel.resetFilters
panelResetFilters ==
  /\ resetFilters
  /\ setHighlightedCountries({})
  /\ UNCHANGED <<selectedCountry, hoveredCountry, isMultiSelectMode, isBrushing,
                 brushStart, brushEnd>>

\* FilterPanel.resetFilters of the older page: the filters only
FilterPanel_resetFilters == resetFilters /\ UNCHANGED highlightVars

\* ------------------------------------------- parallel-coordinates component
InitialAttributes == <<"Real_GDP_per_Capita_USD", "electricity_capacity_per_capita",
                       "internet_users_per_100", "co2_per_capita_tonnes">>

\* the keys the "Add..." menu is exercised with
ExtraAttributes == SubSeq(<<"Mean_Temp", "Median_Age", "water_share">>, 1, MaxExtraAttrs)
AddChoices == SeqRange(ExtraAttributes)

\* rows of the flat file as the chart sees them
GdpCells == {Undefined, Num(10000), Num(20000), Num(50000)}
InternetCells == {Undefined, Num(7)}
ChartRows ==
  {[k \in CsvColumns |->
      CASE k = "Real_GDP_per_Capita_USD" -> g
        [] k = "internet_users_per_100" -> n
        [] OTHER -> Undefined] : g \in GdpCells, n \in InternetCells}

ChartData ==
  UNION {{[i \in 1..n |-> FlatRecord(CountryCodes[i], rows[i])] : rows \in [1..n -> ChartRows]}
         : n \in 0..MaxRecords}

ChartInit ==
  /\ data = <<>>
  /\ selectedAttributes = InitialAttributes
  /\ normalizedData = NormalizedData(data, selectedAttributes)

DragInit ==
  /\ draggedIndex = Null
  /\ dragOverIndex = Null

\* ------------------------------------------------------------ IntroTutorial
NoItem == "null"            \* localStorage.getItem of an absent item
tutorialStepsLength == 6          \* tutorialSteps.length

TutorialInit ==
  /\ isOpen = FALSE
  /\ currentStep = 0

\* the effect that runs when IntroTutorial is mounted, on fresh component state
IntroTutorial_mount ==
  /\ isOpen' = (hasSeenTutorial = NoItem)
  /\ currentStep' = 0
  /\ UNCHANGED hasSeenTutorial

handleClose ==
  /\ hasSeenTutorial' = "true"
  /\ isOpen' = FALSE
  /\ UNCHANGED currentStep

handleNext ==
  IF currentStep < tutorialStepsLength - 1
    THEN currentStep' = currentStep + 1 /\ UNCHANGED <<hasSeenTutorial, isOpen>>
    ELSE handleClose

handlePrevious ==
  /\ currentStep' = IF currentStep > 0 THEN currentStep - 1 ELSE currentStep
  /\ UNCHANGED <<hasSeenTutorial, isOpen>>

handleSkip == handleClose

\* Dialog's onOpenChange={setIsOpen}
onOpenChange(open) ==
  /\ isOpen' = open
  /\ UNCHANGED <<hasSeenTutorial, currentStep>>

\* --------------------------------------------------- Index: section layout
defaultSectionOrder == <<"filters", "map", "details", "barchart", "spider", "scatter", "parallel">>
SectionIds == SeqRange(defaultSectionOrder)

LayoutInit ==
  /\ sectionOrder = defaultSectionOrder
  /\ draggedSection = NoSection
  /\ dragOverSection = NoSection
  /\ sectionDragging = FALSE

ShellInit ==
  /\ hasSeenTutorial = "true"
  /\ TutorialInit
  /\ LayoutInit

\* Array.prototype.indexOf, 0-based, -1 when absent
indexOf(list, x) ==
  IF \E i \in DOMAIN list : list[i] = x
    THEN (CHOOSE i \in DOMAIN list : list[i] = x /\ \A j \in DOMAIN list : list[j] = x => i <= j) - 1
    ELSE -1

Index_handleDragStart(id) ==
  /\ draggedSection' = id
  /\ UNCHANGED <<sectionOrder, dragOverSection>>

Index_handleDragOver(id) ==
  /\ dragOverSection' = IF draggedSection # NoSection /\ draggedSection # id
                          THEN id ELSE dragOverSection
  /\ UNCHANGED <<sectionOrder, draggedSection>>

Swapped_Copy(prevOrder, dragged, targetId) ==
  IF indexOf(prevOrder, dragged) # -1 /\ indexOf(prevOrder, targetId) # -1
    THEN [prevOrder EXCEPT ![indexOf(prevOrder, targetId) + 1] = dragged]
    ELSE prevOrder

Swapped(prevOrder, dragged, targetId) ==
  IF indexOf(prevOrder, dragged) # -1 /\ indexOf(prevOrder, targetId) # -1
    THEN [prevOrder EXCEPT ![indexOf(prevOrder, dragged) + 1] = targetId,
                           ![indexOf(prevOrder, targetId) + 1] = dragged]
    ELSE prevOrder

Index_handleDrop(targetId) ==
  /\ sectionOrder' = IF draggedSection = NoSection \/ draggedSection = targetId
                       THEN sectionOrder
                       ELSE Swapped(sectionOrder, draggedSection, targetId)
  /\ draggedSection' = NoSection
  /\ dragOverSection' = NoSection

resetLayout ==
  /\ sectionOrder' = defaultSectionOrder
  /\ UNCHANGED <<draggedSection, dragOverSection>>

\* the page once the load has settled
LoadDone ==
  /\ loading = FALSE
  /\ loadStep = "settled"
  /\ notice = NoNotice

InitNormalize ==
  /\ IndexInit
  /\ HighlightInit
  /\ ScatterInit
  /\ DragInit
  /\ LoadDone
  /\ ShellInit
  /\ data \in ChartData
  /\ selectedAttributes = InitialAttributes
  /\ normalizedData = NormalizedData(data, selectedAttributes)

addAttribute(attrKey) ==
  /\ attrKey \in SeqRange(availableAttributes)
  /\ attrKey \notin SeqRange(selectedAttributes)
  /\ selectedAttributes' = Append(selectedAttributes, attrKey)
  /\ normalizedData' = NormalizedData(data, selectedAttributes')
  /\ UNCHANGED data

removeAttribute_NoMinimum(attrKey) ==
  /\ selectedAttributes' = SelectSeq(selectedAttributes, LAMBDA a : a # attrKey)
  /\ normalizedData' = NormalizedData(data, selectedAttributes')
  /\ UNCHANGED data

removeAttribute(attrKey) ==
  /\ selectedAttributes' =
       IF Len(selectedAttributes) > 2
         THEN SelectSeq(selectedAttributes, LAMBDA a : a # attrKey)
         ELSE selectedAttributes
  /\ normalizedData' = NormalizedData(data, selectedAttributes')
  /\ UNCHANGED data

\* the chips are rendered from selectedAttributes, index from 0
ChipIndices == 0..(Len(selectedAttributes) - 1)

handleDragStart(index) ==
  /\ index \in ChipIndices
  /\ draggedIndex' = Num(index)
  /\ UNCHANGED <<dragOverIndex, chartVars>>

handleDragOver(index) ==
  /\ index \in ChipIndices
  /\ dragOverIndex' = Num(index)
  /\ UNCHANGED <<draggedIndex, chartVars>>

\* Array.prototype.splice(from, 1) and splice(to, 0, item), indices from 0; a
\* start past the end removes nothing and the item taken is undefined
RemoveAt(list, from) ==
  IF from < Len(list)
    THEN SubSeq(list, 1, from) \o SubSeq(list, from + 2, Len(list))
    ELSE list
ItemAt(list, from) == IF from < Len(list) THEN list[from + 1] ELSE "undefined"
InsertAt(list, to, item) ==
  LET at == IF to > Len(list) THEN Len(list) ELSE to
  IN SubSeq(list, 1, at) \o <<item>> \o SubSeq(list, at + 1, Len(list))

\* the render reads attr.key of every entry and throws on an undefined one
Rendered(attributes) == "undefined" \notin SeqRange(attributes)

handleDrop_Overwrite(index) ==
  /\ index \in ChipIndices
  /\ IF draggedIndex = Null \/ draggedIndex = Num(index)
       THEN UNCHANGED selectedAttributes
       ELSE selectedAttributes' =
              [selectedAttributes EXCEPT ![index + 1] = ItemAt(selectedAttributes, draggedIndex.v)]
  /\ normalizedData' = NormalizedData(data, selectedAttributes')
  /\ draggedIndex' = Null
  /\ dragOverIndex' = Null
  /\ UNCHANGED data

handleDrop(index) ==
  /\ index \in ChipIndices
  /\ IF draggedIndex = Null \/ draggedIndex = Num(index)
       THEN UNCHANGED selectedAttributes
       ELSE selectedAttributes' =
              InsertAt(RemoveAt(selectedAttributes, draggedIndex.v), index,
                       ItemAt(selectedAttributes, draggedIndex.v))
  /\ normalizedData' = IF Rendered(selectedAttributes')
                         THEN NormalizedData(data, selectedAttributes') ELSE <<>>
  /\ draggedIndex' = Null
  /\ dragOverIndex' = Null
  /\ UNCHANGED data

handleDragEnd ==
  /\ draggedIndex' = Null
  /\ dragOverIndex' = Null
  /\ UNCHANGED chartVars

NextNormalize ==
  \/ \E k \in AddChoices : addAttribute(k) /\ UNCHANGED <<indexVars, highlightVars, scatterVars, dragVars, loadVars, shellVars>>
  \/ \E k \in SeqRange(selectedAttributes) : removeAttribute(k) /\ UNCHANGED <<indexVars, highlightVars, scatterVars, dragVars, loadVars, shellVars>>

SpecNormalize == InitNormalize /\ [][NextNormalize]_vars

\* ------------------------------------------- specification of the filter
InitFilter ==
  /\ countryData \in LoadedData
  /\ filters \in FilterStates
  /\ filteredData = FilteredData(countryData, filters)
  /\ ChartInit
  /\ HighlightInit
  /\ ScatterInit
  /\ DragInit
  /\ LoadDone
  /\ ShellInit

NextFilter == resetFilters /\ UNCHANGED <<chartVars, highlightVars, scatterVars, dragVars, loadVars, shellVars>>

SpecFilter == InitFilter /\ [][NextFilter]_vars

\* --------------------------------------------- specification of the page
\* the record stores a load is tried with: rows of the flat file
StoreRow(gdp, access) ==
  [k \in CsvColumns |->
     CASE k = "Real_GDP_per_Capita_USD" -> gdp
       [] k = "electricity_access_percent" -> access
       [] OTHER -> Undefined]

ExampleStore ==
  <<FlatRecord("A", StoreRow(Num(10000), Num(50))),
    FlatRecord("B", StoreRow(Num(50000), Num(90))),
    FlatRecord("C", StoreRow(Undefined, Num(70)))>>

Stores == {ExampleStore, SubSeq(ExampleStore, 1, 2)}

\* the parsed flat file: per row the country, whether
\* getComprehensiveCountryCoordinates knows its name, and the columns
ExampleFile ==
  <<[code |-> "A", coords |-> TRUE, row |-> StoreRow(Num(10000), Num(50))],
    [code |-> "B", coords |-> TRUE, row |-> StoreRow(Num(50000), Num(90))],
    [code |-> "C", coords |-> TRUE, row |-> StoreRow(Undefined, Num(70))]>>

CsvFiles == {ExampleFile, [ExampleFile EXCEPT ![3].coords = FALSE], <<>>}

\* what Papa.parse reports: error(...) or complete(results)
CsvOutcomes == {[failed |-> TRUE, file |-> <<>>]}
               \cup {[failed |-> FALSE, file |-> f] : f \in CsvFiles}

\* loadCiaFinalData, complete callback: the rows without coordinates are skipped
loadCiaFinalData(file) ==
  LET located == SelectSeq(file, LAMBDA r : r.coords)
  IN [i \in 1..Len(located) |-> FlatRecord(located[i].code, located[i].row)]

\* the remote table and what the query resolves to: { data, error } or a throw
TableRow(renewable) ==
  [c \in RemoteColumns |-> IF c = "renewable_energy_percent" THEN renewable ELSE Null]

ExampleTable == <<[code |-> "D", row |-> TableRow(Num(60))]>>

RemoteOutcomes ==
  {[thrown |-> TRUE, error |-> FALSE, data |-> Null],
   [thrown |-> FALSE, error |-> TRUE, data |-> Null],
   [thrown |-> FALSE, error |-> FALSE, data |-> Null],
   [thrown |-> FALSE, error |-> FALSE, data |-> <<>>],
   [thrown |-> FALSE, error |-> FALSE, data |-> ExampleTable]}

\* fetchCountryData: error || !data || data.length === 0, and the catch
FallsBack_IgnoresEmpty(outcome) == outcome.thrown \/ outcome.error \/ outcome.data = Null

FallsBack(outcome) ==
  \/ outcome.thrown
  \/ outcome.error
  \/ outcome.data = Null
  \/ Len(outcome.data) = 0

RemoteRecords(table) == [i \in 1..Len(table) |-> RemoteRecord(table[i].code, table[i].row)]

\* Index.loadCountryData, once fetchCountryData has resolved with d: the rest
\* of the try block and the finally block
loadCountryData(d) ==
  /\ countryData' = d
  /\ filteredData' = FilteredData(d, filters)
  /\ data' = filteredData'
  /\ normalizedData' = NormalizedData(data', selectedAttributes)
  /\ notice' = IF Len(d) = 0 THEN "No data available" ELSE notice
  /\ loading' = FALSE
  /\ loadStep' = "settled"
  /\ IntroTutorial_mount
  /\ UNCHANGED <<filters, selectedAttributes, highlightVars, scatterVars, dragVars, layoutVars>>

\* Index.loadCountryData, once fetchCountryData has rejected: the catch block
\* and the finally block
loadCountryDataFailed_NoFinally ==
  /\ notice' = "Error loading data"
  /\ loadStep' = "settled"
  /\ UNCHANGED <<loading, indexVars, chartVars, highlightVars, scatterVars, dragVars, shellVars>>

loadCountryDataFailed ==
  /\ notice' = "Error loading data"
  /\ loading' = FALSE
  /\ loadStep' = "settled"
  /\ IntroTutorial_mount
  /\ UNCHANGED <<indexVars, chartVars, highlightVars, scatterVars, dragVars, layoutVars>>

\* fetchCountryData, once the remote query has settled
remoteSettles(outcome) ==
  /\ loadStep = "remote"
  /\ IF FallsBack(outcome)
       THEN /\ loadStep' = "csv"
            /\ UNCHANGED <<loading, notice, indexVars, chartVars, highlightVars, scatterVars,
                           dragVars, shellVars>>
       ELSE loadCountryData(RemoteRecords(outcome.data))

\* fetchCountryData, once loadCiaFinalData has settled
csvSettles(outcome) ==
  /\ loadStep = "csv"
  /\ IF outcome.failed
       THEN loadCountryDataFailed
       ELSE loadCountryData(loadCiaFinalData(outcome.file))

\* the handlers of the controls of the rendered dashboard
UserSteps ==
  \/ \E i \in 0..(MaxRecords - 1) : BarClick(i) /\ UNCHANGED <<indexVars, chartVars, scatterVars, dragVars, loadVars, shellVars>>
  \/ \E c \in SeqRange(CountryCodes) : handlePointClick(c) /\ UNCHANGED <<indexVars, chartVars, scatterVars, dragVars, loadVars, shellVars>>
  \/ \E c \in SeqRange(CountryCodes) : handleLineClick(c) /\ UNCHANGED <<indexVars, chartVars, scatterVars, dragVars, loadVars, shellVars>>
  \/ handleClearSelection /\ UNCHANGED <<indexVars, chartVars, scatterVars, dragVars, loadVars, shellVars>>
  \/ toggleMultiSelectMode /\ UNCHANGED <<indexVars, chartVars, scatterVars, dragVars, loadVars, shellVars>>
  \/ \E c \in SeqRange(CountryCodes) \cup {NoCountry} :
       setHoveredCountry(c) /\ UNCHANGED <<indexVars, chartVars, scatterVars, dragVars, loadVars, shellVars>>
  \/ \E c \in SeqRange(CountryCodes) : toggleCountry(c) /\ UNCHANGED <<indexVars, chartVars, scatterVars, dragVars, loadVars, shellVars>>
  \/ \E y \in BrushPositions : handleMouseDown(y) /\ UNCHANGED <<indexVars, chartVars, scatterVars, dragVars, loadVars, shellVars>>
  \/ \E y \in BrushPositions : handleMouseMove(y) /\ UNCHANGED <<indexVars, chartVars, scatterVars, dragVars, loadVars, shellVars>>
  \/ handleMouseUp /\ UNCHANGED <<indexVars, chartVars, scatterVars, dragVars, loadVars, shellVars>>
  \/ barClearSelection /\ UNCHANGED <<indexVars, chartVars, scatterVars, dragVars, loadVars, shellVars>>
  \/ panelResetFilters /\ UNCHANGED <<chartVars, scatterVars, dragVars, loadVars, shellVars>>
  \/ \E i \in 0..(MaxRecords - 1), y \in BrushPositions :
       BarClickGesture(i, y) /\ UNCHANGED <<indexVars, chartVars, scatterVars, dragVars, loadVars, shellVars>>
  \/ \E c \in SeqRange(CountryCodes) :
       onCountryClick(c) /\ UNCHANGED <<indexVars, chartVars, scatterVars, dragVars, loadVars, shellVars>>
  \/ onClose /\ UNCHANGED <<indexVars, chartVars, scatterVars, dragVars, loadVars, shellVars>>
  \/ FilterPanel_resetFilters /\ UNCHANGED <<chartVars, scatterVars, dragVars, loadVars, shellVars>>
  \/ \E size \in MatrixSizes :
       setMatrixSize(size) /\ UNCHANGED <<indexVars, chartVars, highlightVars, dragVars, loadVars, shellVars>>
  \/ \E change \in AttributeChanges :
       handleAttributeChange(change[1], change[2])
         /\ UNCHANGED <<indexVars, chartVars, highlightVars, dragVars, loadVars, shellVars>>

\* mutant of LoadInit: useState(false) for loading
LoadInit_NotLoading ==
  /\ loading = FALSE
  /\ loadStep = "remote"
  /\ notice = NoNotice

\* the mount effect has called loadCountryData, which awaits the remote query
LoadInit ==
  /\ loading = TRUE
  /\ loadStep = "remote"
  /\ notice = NoNotice

Init ==
  /\ IndexInit /\ ChartInit /\ HighlightInit /\ ScatterInit /\ DragInit /\ LoadInit
  /\ ShellInit

LoadSteps ==
  \/ \E outcome \in RemoteOutcomes : remoteSettles(outcome)
  \/ \E outcome \in CsvOutcomes : csvSettles(outcome)

\* the dashboard is rendered, and its controls can be used, once loading is false
Next ==
  \/ LoadSteps
  \/ /\ ~loading
     /\ UserSteps

Spec == Init /\ [][Next]_vars

\* the two promises settle
FairSpec == Spec /\ WF_vars(LoadSteps)


\* ----------------------------------- specification of the page with Refresh

\* CollapsibleFilterPanel: onValueChange of a range slider
onFilterChange(name, value) ==
  /\ filters' = [filters EXCEPT ![name] = value]
  /\ filteredData' = FilteredData(countryData, filters')
  /\ data' = filteredData'
  /\ normalizedData' = NormalizedData(data', selectedAttributes)
  /\ UNCHANGED <<countryData, selectedAttributes>>

SliderChoices == {<<"renewableEnergy", <<50, 100>>>>, <<"renewableEnergy", <<0, 100>>>>}

\* while loading is true the page renders the spinner only: the dashboard and
\* the tutorial are unmounted and their component state is discarded
Unmounted ==
  /\ isOpen' = FALSE
  /\ currentStep' = 0
  /\ matrixSize' = "1x1"
  /\ scatterAttributes' = <<"Real_GDP_per_Capita_USD", "co2_per_capita_tonnes",
                            "internet_users_per_100">>
  /\ brushMode' = FALSE
  /\ brushingCell' = NoCell
  /\ scatterBrushStart' = Null
  /\ scatterBrushEnd' = Null
  /\ draggedIndex' = Null
  /\ dragOverIndex' = Null
  /\ selectedAttributes' = InitialAttributes
  /\ hoveredCountry' = NoCountry
  /\ isMultiSelectMode' = TRUE
  /\ isBrushing' = FALSE
  /\ brushStart' = Null
  /\ brushEnd' = Null

\* mutant of refreshData: the record store is emptied when the load starts
refreshData_ClearsStore ==
  /\ loading' = TRUE
  /\ loadStep' = "remote"
  /\ Unmounted
  /\ countryData' = <<>>
  /\ filteredData' = <<>>
  /\ data' = <<>>
  /\ normalizedData' = <<>>
  /\ localSelection' = highlightedCountries
  /\ UNCHANGED <<filters, selectedCountry, highlightedCountries, notice,
                 hasSeenTutorial, layoutVars>>

\* the Refresh button: loadCountryData up to its first await
refreshData ==
  /\ loading' = TRUE
  /\ loadStep' = "remote"
  /\ Unmounted
  /\ normalizedData' = NormalizedData(data, selectedAttributes')
  /\ localSelection' = highlightedCountries
  /\ UNCHANGED <<indexVars, data, selectedCountry, highlightedCountries, notice,
                 hasSeenTutorial, layoutVars>>

\* the browser loads the page again: every component starts from its initial
\* state, localStorage is kept
pageReload ==
  /\ Unmounted
  /\ countryData' = <<>>
  /\ filters' = DefaultFilters
  /\ filteredData' = <<>>
  /\ data' = <<>>
  /\ normalizedData' = <<>>
  /\ selectedCountry' = NoCountry
  /\ highlightedCountries' = {}
  /\ localSelection' = {}
  /\ loading' = TRUE
  /\ loadStep' = "remote"
  /\ notice' = NoNotice
  /\ sectionOrder' = defaultSectionOrder
  /\ draggedSection' = NoSection
  /\ dragOverSection' = NoSection
  /\ sectionDragging' = FALSE
  /\ UNCHANGED hasSeenTutorial

InitRefresh ==
  /\ IndexInit /\ ChartInit /\ HighlightInit /\ ScatterInit /\ DragInit /\ LoadInit
  /\ TutorialInit
  /\ LayoutInit
  /\ hasSeenTutorial \in {NoItem, "true"}

\* the tutorial is a modal dialog: its controls while it is open
TutorialControls ==
  \/ handleNext /\ UNCHANGED <<indexVars, chartVars, highlightVars, scatterVars, dragVars, loadVars, layoutVars>>
  \/ handlePrevious /\ UNCHANGED <<indexVars, chartVars, highlightVars, scatterVars, dragVars, loadVars, layoutVars>>
  \/ handleSkip /\ UNCHANGED <<indexVars, chartVars, highlightVars, scatterVars, dragVars, loadVars, layoutVars>>
  \/ onOpenChange(FALSE) /\ UNCHANGED <<indexVars, chartVars, highlightVars, scatterVars, dragVars, loadVars, layoutVars>>

\* the controls of the page behind it
PageSteps ==
  \/ refreshData
  \/ \E c \in SeqRange(CountryCodes) : toggleCountry(c) /\ UNCHANGED <<indexVars, chartVars, scatterVars, dragVars, loadVars, shellVars>>
  \/ \E c \in SeqRange(CountryCodes) : handleLineClick(c) /\ UNCHANGED <<indexVars, chartVars, scatterVars, dragVars, loadVars, shellVars>>
  \/ \E choice \in SliderChoices :
       onFilterChange(choice[1], choice[2]) /\ UNCHANGED <<highlightVars, scatterVars, dragVars, loadVars, shellVars>>

NextRefresh ==
  \/ LoadSteps
  \/ pageReload
  \/ /\ ~loading
     /\ isOpen
     /\ TutorialControls
  \/ /\ ~loading
     /\ ~isOpen
     /\ PageSteps

SpecRefresh == InitRefresh /\ [][NextRefresh]_vars

\* -------------------------------------- specification of the section layout
\* sections whose handle is dragged and on which something is dropped
SectionChoices == {"filters", "map", "barchart", "parallel"}

\* dragstart on the handle of a section: the browser starts a drag gesture
sectionDragStart(id) ==
  /\ ~sectionDragging
  /\ Index_handleDragStart(id)
  /\ sectionDragging' = TRUE

\* dragover on a section, during a section drag or the drag of anything else
sectionDragOver(id) ==
  /\ Index_handleDragOver(id)
  /\ UNCHANGED sectionDragging

\* drop on a section: it ends the gesture
sectionDrop(targetId) ==
  /\ Index_handleDrop(targetId)
  /\ sectionDragging' = FALSE

\* the gesture ends outside every section or is cancelled: DraggableSection
\* registers no onDragEnd, so no handler runs
sectionDragAbandoned ==
  /\ sectionDragging
  /\ sectionDragging' = FALSE
  /\ UNCHANGED <<sectionOrder, draggedSection, dragOverSection>>

otherVars == <<indexVars, chartVars, highlightVars, scatterVars, dragVars, loadVars, tutorialVars>>

InitLayout ==
  /\ IndexInit
  /\ ChartInit
  /\ HighlightInit
  /\ ScatterInit
  /\ DragInit
  /\ LoadDone
  /\ ShellInit

NextLayout ==
  \/ \E id \in SectionChoices : sectionDragStart(id) /\ UNCHANGED otherVars
  \/ \E id \in SectionChoices : sectionDragOver(id) /\ UNCHANGED otherVars
  \/ \E id \in SectionChoices : sectionDrop(id) /\ UNCHANGED otherVars
  \/ sectionDragAbandoned /\ UNCHANGED otherVars
  \/ ~sectionDragging /\ resetLayout /\ UNCHANGED <<sectionDragging, otherVars>>

SpecLayout == InitLayout /\ [][NextLayout]_vars

\* ------------------------------------ specification of the attribute list
\* the parallel-coordinates chart on a loaded store: the chips of the axes are
\* added, removed and dragged. A chip is added, removed or picked up only
\* while no drag is in progress.
InitAttributes ==
  /\ IndexInit
  /\ HighlightInit
  /\ ScatterInit
  /\ DragInit
  /\ LoadDone
  /\ ShellInit
  /\ data \in Stores
  /\ selectedAttributes = InitialAttributes
  /\ normalizedData = NormalizedData(data, selectedAttributes)

MaxChips == Len(InitialAttributes) + MaxExtraAttrs

\* what the chart does not touch
pageVars == <<indexVars, highlightVars, scatterVars, loadVars, shellVars>>

NextAttributes ==
  \/ \E k \in AddChoices :
       draggedIndex = Null /\ addAttribute(k) /\ UNCHANGED <<dragVars, pageVars>>
  \/ \E k \in SeqRange(selectedAttributes) :
       draggedIndex = Null /\ removeAttribute(k) /\ UNCHANGED <<dragVars, pageVars>>
  \/ \E i \in 0..(MaxChips - 1) :
       draggedIndex = Null /\ handleDragStart(i) /\ UNCHANGED pageVars
  \/ \E i \in 0..(MaxChips - 1) : handleDragOver(i) /\ UNCHANGED pageVars
  \/ \E i \in 0..(MaxChips - 1) : handleDrop(i) /\ UNCHANGED pageVars
  \/ handleDragEnd /\ UNCHANGED pageVars

SpecAttributes == InitAttributes /\ [][NextAttributes]_vars

\* ------------------------------ specification of the chip handlers alone
\* the handlers of the chips in any order: a dragstart need not be followed
\* by a drop or a dragend before the next click. Nothing is handled once the
\* render has thrown.
NextChipHandlers ==
  \/ \E k \in AddChoices :
       Rendered(selectedAttributes) /\ addAttribute(k) /\ UNCHANGED <<dragVars, pageVars>>
  \/ \E k \in SeqRange(selectedAttributes) :
       Rendered(selectedAttributes) /\ removeAttribute(k) /\ UNCHANGED <<dragVars, pageVars>>
  \/ \E i \in 0..(MaxChips - 1) :
       Rendered(selectedAttributes) /\ handleDragStart(i) /\ UNCHANGED pageVars
  \/ \E i \in 0..(MaxChips - 1) :
       Rendered(selectedAttributes) /\ handleDragOver(i) /\ UNCHANGED pageVars
  \/ \E i \in 0..(MaxChips - 1) :
       Rendered(selectedAttributes) /\ handleDrop(i) /\ UNCHANGED pageVars
  \/ Rendered(selectedAttributes) /\ handleDragEnd /\ UNCHANGED pageVars

InitChipHandlers == InitAttributes /\ data = ExampleStore

SpecChipHandlers == InitChipHandlers /\ [][NextChipHandlers]_vars

\* ------------------------------------------ specification of the brushes
\* the brush gestures of the bar chart and of the scatter-plot matrix, on a
\* loaded page whose highlight set is filled from the filter panel
AllCells == (0..2) \X (0..2)

BrushSteps ==
  \/ \E c \in SeqRange(CountryCodes) : toggleCountry(c) /\ UNCHANGED <<indexVars, chartVars, scatterVars, dragVars, loadVars, shellVars>>
  \/ \E y \in BrushPositions : handleMouseDown(y) /\ UNCHANGED <<indexVars, chartVars, scatterVars, dragVars, loadVars, shellVars>>
  \/ \E y \in BrushPositions : handleMouseMove(y) /\ UNCHANGED <<indexVars, chartVars, scatterVars, dragVars, loadVars, shellVars>>
  \/ handleMouseUp /\ UNCHANGED <<indexVars, chartVars, scatterVars, dragVars, loadVars, shellVars>>
  \/ barClearSelection /\ UNCHANGED <<indexVars, chartVars, scatterVars, dragVars, loadVars, shellVars>>
  \/ \E size \in MatrixSizes :
       setMatrixSize(size) /\ UNCHANGED <<indexVars, chartVars, highlightVars, dragVars, loadVars, shellVars>>
  \/ \E change \in AttributeChanges :
       handleAttributeChange(change[1], change[2])
         /\ UNCHANGED <<indexVars, chartVars, highlightVars, dragVars, loadVars, shellVars>>
  \/ setBrushMode /\ UNCHANGED <<indexVars, chartVars, highlightVars, dragVars, loadVars, shellVars>>
  \/ \E cell \in AllCells, pos \in ScatterPositions :
       scatterMouseDown(cell, pos) /\ UNCHANGED <<indexVars, chartVars, dragVars, loadVars, shellVars>>
  \/ \E cell \in AllCells, pos \in ScatterPositions :
       scatterMouseMove(cell, pos) /\ UNCHANGED <<indexVars, chartVars, dragVars, loadVars, shellVars>>
  \/ \E cell \in AllCells : scatterMouseUp(cell) /\ UNCHANGED <<indexVars, chartVars, dragVars, loadVars, shellVars>>
  \/ \E cell \in AllCells : scatterMouseLeave(cell) /\ UNCHANGED <<indexVars, chartVars, dragVars, loadVars, shellVars>>
  \/ scatterClearSelection /\ UNCHANGED <<indexVars, chartVars, dragVars, loadVars, shellVars>>

NextBrush ==
  \/ LoadSteps
  \/ /\ ~loading
     /\ BrushSteps

SpecBrush == Init /\ [][NextBrush]_vars

\* ------------------- specification of the page with the draggable sections
\* Index.tsx passes highlightedCountries to InteractiveParallelCoordinates but
\* no onMultiSelect: onMultiSelect?.(...) is then a no-op.

\* InteractiveParallelCoordinates.handleLineClick without onMultiSelect
handleLineClick_Unwired(countryCode) ==
  /\ countryCode \in FilteredCodes
  /\ localSelection' = IF isMultiSelectMode
                         THEN Toggled(localSelection, countryCode) ELSE localSelection
  /\ selectedCountry' = countryCode
  /\ UNCHANGED <<highlightedCountries, hoveredCountry, isMultiSelectMode, isBrushing,
                 brushStart, brushEnd>>

\* InteractiveParallelCoordinates.handleClearSelection without onMultiSelect
handleClearSelection_Unwired ==
  /\ effectiveSelection # {}
  /\ localSelection' = {}
  /\ UNCHANGED <<selectedCountry, highlightedCountries, hoveredCountry, isMultiSelectMode,
                 isBrushing, brushStart, brushEnd>>

SectionPageSteps ==
  \/ \E c \in SeqRange(CountryCodes) :
       handleLineClick_Unwired(c) /\ UNCHANGED <<indexVars, chartVars, scatterVars, dragVars, loadVars, shellVars>>
  \/ handleClearSelection_Unwired /\ UNCHANGED <<indexVars, chartVars, scatterVars, dragVars, loadVars, shellVars>>
  \/ toggleMultiSelectMode /\ UNCHANGED <<indexVars, chartVars, scatterVars, dragVars, loadVars, shellVars>>
  \/ \E y \in BrushPositions : handleMouseDown(y) /\ UNCHANGED <<indexVars, chartVars, scatterVars, dragVars, loadVars, shellVars>>
  \/ \E y \in BrushPositions : handleMouseMove(y) /\ UNCHANGED <<indexVars, chartVars, scatterVars, dragVars, loadVars, shellVars>>
  \/ handleMouseUp /\ UNCHANGED <<indexVars, chartVars, scatterVars, dragVars, loadVars, shellVars>>
  \/ barClearSelection /\ UNCHANGED <<indexVars, chartVars, scatterVars, dragVars, loadVars, shellVars>>
  \/ onClose /\ UNCHANGED <<indexVars, chartVars, scatterVars, dragVars, loadVars, shellVars>>

NextSectionPage ==
  \/ LoadSteps
  \/ /\ ~loading
     /\ SectionPageSteps

SpecSectionPage == Init /\ [][NextSectionPage]_vars

\* ------------------------------------------------- claims on the normalizer
Gdp == "Real_GDP_per_Capita_USD"
Records == 1..Len(data)
Selected == SeqRange(selectedAttributes)
NormalizedOf(i, k) == normalizedData[i].normalized[k]
DefinedValues(k) == {data[i].attrs[k].v : i \in {j \in Records : IsNumber(data[j].attrs[k])}}
LeastOf(S) == CHOOSE m \in S : \A x \in S : m <= x
GreatestOf(S) == CHOOSE m \in S : \A x \in S : m >= x

\* C1: every record of the chart's data gets exactly one normalized value for
\* every selected attribute, and that value lies in [0, 1].
C1_NormalizedInUnitInterval ==
  /\ Len(normalizedData) = Len(data)
  /\ \A i \in Records :
       /\ normalizedData[i].country = data[i]
       /\ DOMAIN normalizedData[i].normalized = Selected
       /\ \A k \in Selected : InUnit(NormalizedOf(i, k))

\* a sparse record set normalized on GDP: one value missing, the others at
\* the two ends of the interval
C1_Witness ==
  /\ Gdp \in Selected
  /\ \E i, m, u \in Records :
       /\ data[u].attrs[Gdp] = Undefined
       /\ InUnit(NormalizedOf(u, Gdp))
       /\ RatEq(NormalizedOf(i, Gdp), <<1, 1>>)
       /\ RatEq(NormalizedOf(m, Gdp), <<0, 1>>)

\* C2: a record whose value for a selected attribute is undefined is
\* normalized to 0.5 whatever the other records hold.
C2_UndefinedNormalizesToHalf ==
  \A i \in Records : \A k \in Selected :
    data[i].attrs[k] = Undefined => RatEq(NormalizedOf(i, k), Half)

\* an undefined value next to two records that span a non-empty range
C2_Witness ==
  /\ Gdp \in Selected
  /\ \E i, j, u \in Records :
       /\ data[u].attrs[Gdp] = Undefined
       /\ RatEq(NormalizedOf(u, Gdp), Half)
       /\ IsNumber(data[i].attrs[Gdp]) /\ IsNumber(data[j].attrs[Gdp])
       /\ data[i].attrs[Gdp].v < data[j].attrs[Gdp].v

AllSameValue(k) ==
  /\ Len(data) > 0
  /\ \A i, j \in Records : IsNumber(data[i].attrs[k]) /\ data[i].attrs[k] = data[j].attrs[k]
OneDefinedValue(k) == Cardinality({i \in Records : IsNumber(data[i].attrs[k])}) = 1

\* C3: when all records hold the same value for an attribute, or only one
\* record defines it, every record is normalized to 0.5 for that attribute.
C3_ZeroSpanNormalizesToHalf ==
  \A k \in Selected :
    (AllSameValue(k) \/ OneDefinedValue(k)) =>
      \A i \in Records : RatEq(NormalizedOf(i, k), Half)

\* several records sharing one GDP value, and one lone internet value
C3_Witness ==
  /\ Len(data) >= 2
  /\ Gdp \in Selected /\ AllSameValue(Gdp)
  /\ "internet_users_per_100" \in Selected /\ OneDefinedValue("internet_users_per_100")
  /\ \A i \in Records : RatEq(NormalizedOf(i, Gdp), Half)

IsExample ==
  /\ Len(data) = 3
  /\ data[1].attrs[Gdp] = Num(10000)
  /\ data[2].attrs[Gdp] = Num(50000)
  /\ data[3].attrs[Gdp] = Undefined

\* C4: when the defined values of an attribute are not all equal, a defined
\* value v is normalized to (v - min) / (max - min) over the defined values,
\* the minimum to 0 and the maximum to 1; A(10000), B(50000), C(undefined)
\* give A -> 0, B -> 1, C -> 0.5.
C4_MinMaxFormula ==
  /\ \A k \in Selected :
       Cardinality(DefinedValues(k)) > 1 =>
         LET lo == LeastOf(DefinedValues(k))
             hi == GreatestOf(DefinedValues(k))
         IN \A i \in Records :
              IsNumber(data[i].attrs[k]) =>
                /\ RatEq(NormalizedOf(i, k), <<data[i].attrs[k].v - lo, hi - lo>>)
                /\ data[i].attrs[k].v = lo => RatEq(NormalizedOf(i, k), <<0, 1>>)
                /\ data[i].attrs[k].v = hi => RatEq(NormalizedOf(i, k), <<1, 1>>)
  /\ (IsExample /\ Gdp \in Selected) =>
       /\ RatEq(NormalizedOf(1, Gdp), <<0, 1>>)
       /\ RatEq(NormalizedOf(2, Gdp), <<1, 1>>)
       /\ RatEq(NormalizedOf(3, Gdp), Half)

\* the example record set, normalized on GDP
C4_Witness ==
  /\ IsExample /\ Gdp \in Selected
  /\ RatEq(NormalizedOf(2, Gdp), <<1, 1>>)


\* ----------------------------------------------------- claims on the filter
Loaded == DOMAIN countryData
Kept(i) == \E j \in DOMAIN filteredData : filteredData[j] = countryData[i]
KeptUnder(i, f) == countryData[i] \in SeqRange(FilteredData(countryData, f))
WithRange(name, pair) == [filters EXCEPT ![name] = pair]
ValueOf(i, name) == countryData[i].attrs[FieldOf(name)]
Names == SeqRange(RangeNames)

\* the value of one attribute lies in [range[1] / unit, range[2] / unit]
Within(x, range, unit) ==
  range[1] <= unit * ToNumber(x) /\ unit * ToNumber(x) <= range[2]

UnitOf(name) == IF name = "electricityCost" THEN 100 ELSE 1

C6_UndefinedPassesAnyRange ==
  \A i \in Loaded :
    /\ \A name \in Names :
         ValueOf(i, name) = Undefined =>
           \A pair \in RangeChoices(name) : Kept(i) <=> KeptUnder(i, WithRange(name, pair))
    /\ (\A name \in Names : ValueOf(i, name) = Undefined) => Kept(i)

\* a kept record with an undefined value under a range with min > max, next
\* to a record that the same range drops
C6_Witness ==
  \E i, j \in Loaded : \E name \in Names :
    /\ ValueOf(i, name) = Undefined /\ Kept(i)
    /\ filters[name][1] > filters[name][2]
    /\ ValueOf(j, name) # Undefined /\ ~Kept(j)

Widens(pair, old) == pair[1] <= old[1] /\ pair[2] >= old[2]

\* C8: widening one range (min decreased and/or max increased) keeps every
\* record that the narrower filter kept.
C8_WideningKeepsRecords ==
  \A name \in Names : \A pair \in RangeChoices(name) :
    Widens(pair, filters[name]) =>
      \A i \in Loaded : Kept(i) => KeptUnder(i, WithRange(name, pair))

\* a widening that keeps the kept record and lets another one in
C8_Witness ==
  \E name \in Names : \E pair \in RangeChoices(name) : \E i, j \in Loaded :
    /\ Widens(pair, filters[name]) /\ pair # filters[name]
    /\ Kept(i) /\ KeptUnder(i, WithRange(name, pair))
    /\ ~Kept(j) /\ KeptUnder(j, WithRange(name, pair))

\* C9: a range with min > max drops every record that defines the attribute
\* and keeps the records that leave it undefined and pass the other ranges.
C9_InvertedRangeRejectsDefined ==
  \A name \in Names :
    filters[name][1] > filters[name][2] =>
      \A i \in Loaded :
        Kept(i) <=> /\ ValueOf(i, name) = Undefined
                    /\ KeptUnder(i, WithRange(name, DefaultFilters[name]))

\* under a range with min > max: one record defines the attribute and is
\* dropped, one leaves it undefined and is kept
C9_Witness ==
  \E name \in Names : \E i, j \in Loaded :
    /\ filters[name][1] > filters[name][2]
    /\ IsNumber(ValueOf(i, name)) /\ ~Kept(i)
    /\ ValueOf(j, name) = Undefined /\ Kept(j)
    /\ Len(filteredData) < Len(countryData)


\* -------------------------------------------- claims on the highlight state
\* the precedence of the rendering emphasis
PrecedenceClass(countryCode) ==
  IF selectedCountry = countryCode THEN "active"
  ELSE IF highlightedCountries # {} /\ countryCode \in highlightedCountries THEN "highlighted"
  ELSE IF highlightedCountries # {} THEN "de-emphasized"
  ELSE "default"

\* C10: the parallel-coordinates chart, the scatter-plot matrix and the bar
\* chart classify every record by the same precedence: active, else
\* highlighted, else de-emphasized, else default (checked while no line is
\* hovered and no brush gesture is in progress).
C10_SamePrecedenceInEveryChart ==
  (hoveredCountry = NoCountry /\ ~isBrushing) =>
    /\ \A c \in FilteredCodes :
         /\ getLineColor(c) = PrecedenceClass(c)
         /\ getPointColor(c) = PrecedenceClass(c)
    /\ \A i \in 0..(Len(topCountries) - 1) :
         getBarColor(topCountries[i + 1].countryCode, i)
           = PrecedenceClass(topCountries[i + 1].countryCode)

\* the three controls that toggle a country of the highlight set
Codes == SeqRange(CountryCodes)
LineToggle(c) == isMultiSelectMode /\ handleLineClick(c)
IsToggledBy(c) == highlightedCountries' = Toggled(highlightedCountries, c)

\* C11: from any highlight set H, toggling the same id twice in succession
\* gives H again: the set the second toggle computes from the state left by
\* the first is the set the first started from, for the checkbox of the
\* filter panel, a point click and a line click in multi-select mode.
C11_ToggleTwiceRestores ==
  [][\A c \in Codes :
       /\ toggleCountry(c) => Toggled(highlightedCountries', c) = highlightedCountries
       /\ handlePointClick(c) => Toggled(highlightedCountries', c) = highlightedCountries
       /\ LineToggle(c) =>
            /\ isMultiSelectMode'
            /\ Toggled(localSelection', c) = highlightedCountries]_vars

\* A was toggled in and out again beside a highlighted B
C11_Witness ==
  /\ highlightedCountries = {"B"}
  /\ selectedCountry = "A"
  /\ brushStart = Null

C13_SetActiveLeavesHighlight ==
  [][/\ \A c \in Codes :
          onCountryClick(c) =>
            selectedCountry' = c /\ highlightedCountries' = highlightedCountries
     /\ \A i \in 0..(MaxRecords - 1), y \in BrushPositions :
          BarClickGesture(i, y) =>
            /\ selectedCountry' = topCountries[i + 1].countryCode
            /\ highlightedCountries' = highlightedCountries]_vars

\* C14: a filter reset clears everything: right after the Reset control of
\* the filter panel the shared highlight set is empty and no country is
\* active, whatever they were before.
C14_ResetClearsAll ==
  [][panelResetFilters =>
       highlightedCountries' = {} /\ selectedCountry' = NoCountry]_vars

\* the bars inside the brush region of the bar chart
BarsInRegion == {topCountries[i + 1].countryCode : i \in getSelectedIndices}

\* C15: when a brush gesture is released the shared highlight set becomes
\* exactly the ids of the records inside the final brush region, whatever it
\* held before, for the brush of the bar chart and for the brush of the
\* scatter-plot matrix.
C15_BrushReplacesWholesale ==
  [][/\ (handleMouseUp /\ brushStart # Null /\ brushEnd # Null) =>
          highlightedCountries' = BarsInRegion
     /\ \A cell \in AllCells :
          scatterMouseUp(cell) =>
            highlightedCountries' = InBox(cell, scatterBrushStart, scatterBrushEnd)]_vars

\* how often a key occurs in a list
Count(list, k) == Cardinality({i \in DOMAIN list : list[i] = k})
Without(list, k) == SelectSeq(list, LAMBDA a : a # k)

\* C16: after any sequence of add, remove and reorder operations the attribute
\* list holds at least 2 attributes, and a removal requested while exactly 2
\* are selected leaves the list as it is.
C16_AtLeastTwoAttributes ==
  /\ [](Len(selectedAttributes) >= 2)
  /\ [][\A k \in SeqRange(availableAttributes) :
          (Len(selectedAttributes) = 2 /\ removeAttribute(k)) =>
            selectedAttributes' = selectedAttributes]_vars

\* two axes are left, reordered, and no drag is in progress
C16_Witness ==
  /\ selectedAttributes = <<"co2_per_capita_tonnes", "Real_GDP_per_Capita_USD">>
  /\ draggedIndex = Null

RemoteHasRows(outcome) ==
  /\ ~outcome.thrown
  /\ ~outcome.error
  /\ outcome.data # Null
  /\ Len(outcome.data) >= 1

Notices == {NoNotice, "No data available", "Error loading data"}

\* C19: every load ends the loading state: once the load has settled, with
\* remote rows, with rows or no rows of the flat file, or with both sources
\* failed, the loading flag is false (the dashboard is rendered) and at most
\* a notice is shown; the load does settle and the page never goes back to
\* loading.
C19_LoadEndsLoading ==
  /\ [](loadStep = "settled" => (~loading /\ notice \in Notices))
  /\ <>[](~loading)

\* both sources failed: no records, the error notice, the dashboard rendered
C19_Witness ==
  /\ loadStep = "settled"
  /\ notice = "Error loading data"
  /\ countryData = <<>>
  /\ ~loading

\* C20: a row of the flat file whose country has no coordinates is kept in
\* the record store, for every view but the map.
C20_UnlocatedRowsRetained ==
  [][\A outcome \in CsvOutcomes :
       (csvSettles(outcome) /\ ~outcome.failed) =>
         \A i \in DOMAIN outcome.file :
           \E j \in DOMAIN countryData' : countryData'[j].countryCode = outcome.file[i].code]_vars

\* C21: the tutorial opens on a load exactly when the hasSeenTutorial item is
\* absent; every step that closes the open tutorial (Skip, the close button,
\* the last Next, the dialog's own close) stores the item; and once stored the
\* item stays, so no later load opens the tutorial.
C21_TutorialDismissedOnce ==
  [][/\ (loading /\ ~loading') => (isOpen' <=> hasSeenTutorial = NoItem)
     /\ (isOpen /\ ~isOpen' /\ ~loading') => hasSeenTutorial' = "true"
     /\ hasSeenTutorial = "true" => hasSeenTutorial' = "true"]_vars

\* C22: the fixed-dimension parallel-coordinates chart, the choropleth map and
\* the spider chart place a record whose value is missing, and every record
\* of an attribute whose range has zero span, at the midpoint of the scale (50).
Midpoint100 == <<50, 1>>
HasZeroSpan(d, key) ==
  Len(FieldValues(d, key)) > 0 /\ MathMax(FieldValues(d, key)) = MathMin(FieldValues(d, key))

C22_SameFallbackInEveryView ==
  \A i \in DOMAIN filteredData :
    LET country == filteredData[i]
    IN /\ \A j \in DOMAIN dimensions :
            (~IsNumber(Field(country, dimensions[j])) \/ HasZeroSpan(keyCountries(filteredData), dimensions[j]))
              => (country \in SeqRange(keyCountries(filteredData))
                    => RatEq(chartData(filteredData, dimensions[j], country), Midpoint100))
       /\ (~IsNumber(Field(country, filters.selectedMetric)) \/ HasZeroSpan(filteredData, filters.selectedMetric))
            => RatEq(level(filteredData, filters.selectedMetric, country), Midpoint100)
       /\ \A j \in DOMAIN radarAttributes :
            (~IsNumber(Field(country, radarAttributes[j])) \/ HasZeroSpan(filteredData, radarAttributes[j]))
              => radarNormalizeValue(filteredData, radarAttributes[j], country) = Num(50)

\* C23: a record of the remote table whose metric column is null passes every
\* range check on that metric, as a flat-file record with an undefined metric
\* does: replacing the range never changes whether the record is kept.
C23_NullPassesAnyRange ==
  \A i \in Loaded : \A name \in Names :
    ValueOf(i, name) = Null =>
      \A pair \in RangeChoices(name) : Kept(i) <=> KeptUnder(i, WithRange(name, pair))

\* C24: in every state (React effects have run) the local selection of the
\* parallel-coordinates chart has the same members as the shared highlight set.
C24_NoDivergentLocalSelection == localSelection = highlightedCountries

\* C25: a load is started only by the mount effect (the initial state, or a
\* load of the page, which discards the page it replaces) or by the Refresh
\* control, and the Refresh control starts one only when no earlier invocation
\* of loadCountryData is still awaiting.
C25_OneLoadInFlight ==
  [][/\ (refreshData /\ ~pageReload) => loadStep = "settled"
     /\ (loadStep = "settled" /\ loadStep' # "settled") => (refreshData \/ pageReload)]_vars

\* a refresh is in flight: a load is awaited while the store of an earlier
\* load is still held
C25_Witness ==
  /\ loading
  /\ loadStep = "remote"
  /\ countryData # <<>>

\* C26: the steps of a refresh that fails (the click, the remote query falling
\* back, the flat-file loader rejecting) leave the record store, the active
\* country, the highlight set and the filters as they were.
C26_FailedRefreshKeepsState ==
  [][(\/ refreshData
      \/ \E outcome \in RemoteOutcomes : remoteSettles(outcome) /\ FallsBack(outcome)
      \/ \E outcome \in CsvOutcomes : csvSettles(outcome) /\ outcome.failed)
       => UNCHANGED <<countryData, selectedCountry, highlightedCountries, filters>>]_vars

\* a failed refresh has settled with a store, an active country, a highlight
\* set and an edited filter in place
C26_Witness ==
  /\ ~loading
  /\ notice = "Error loading data"
  /\ countryData # <<>>
  /\ selectedCountry # NoCountry
  /\ highlightedCountries # {}
  /\ filters # DefaultFilters

\* C27: after any sequence of add, remove and drag-reorder operations,
\* whatever drag index a drop finds, the attribute list holds no key twice and
\* no undefined entry.
C27_NoDuplicateNoUndefined ==
  /\ \A i, j \in DOMAIN selectedAttributes :
       selectedAttributes[i] = selectedAttributes[j] => i = j
  /\ \A i \in DOMAIN selectedAttributes : selectedAttributes[i] # "undefined"

\* C28: the section order is always a permutation of the seven section ids; a
\* drop on another section than the dragged one exchanges exactly those two,
\* and a drop on the dragged section, or with no dragged section, leaves the
\* order as it is.
C28_SectionOrderIsPermutation ==
  /\ [](/\ Len(sectionOrder) = 7
        /\ \A id \in SectionIds : Count(sectionOrder, id) = 1)
  /\ [][\A targetId \in SectionIds :
          sectionDrop(targetId) =>
            IF draggedSection = NoSection \/ draggedSection = targetId
              THEN sectionOrder' = sectionOrder
              ELSE \A i \in DOMAIN sectionOrder :
                     sectionOrder'[i] =
                       IF sectionOrder[i] = draggedSection THEN targetId
                       ELSE IF sectionOrder[i] = targetId THEN draggedSection
                       ELSE sectionOrder[i]]_vars

\* the map has been dropped on the filters, and no section is held
C28_Witness ==
  /\ sectionOrder = <<"map", "filters", "details", "barchart", "spider", "scatter", "parallel">>
  /\ draggedSection = NoSection
  /\ ~sectionDragging

\* C29: whenever no drag gesture that started on a section is in progress,
\* draggedSection and dragOverSection are both null.
C29_NoSectionHeldOutsideGesture ==
  ~sectionDragging => (draggedSection = NoSection /\ dragOverSection = NoSection)

\* C30: for every histogram field with a defined value, every defined value
\* is counted in one bin 0..9, so the 10 bin counts sum to the number of
\* defined values, also when all defined values are equal.
RECURSIVE SumOf(_)
SumOf(counts) == IF counts = <<>> THEN 0 ELSE Head(counts) + SumOf(Tail(counts))

C30_HistogramCountsEveryValue ==
  \A field \in histogramFields :
    LET values == FieldValues(countryData, field)
    IN Len(values) > 0 =>
         /\ \A i \in DOMAIN values :
              binIndex(values[i], MathMin(values), MathMax(values)) \in 0..(bins - 1)
         /\ Len(getDataDistribution(countryData, field)) = bins
         /\ SumOf(getDataDistribution(countryData, field)) = Len(values)

====
